---------------------------- MODULE Spec2Model ----------------------------
(***************************************************************************)
(* igloc: discovery and classification of git-ignored files, and the       *)
(* export / import archive that carries the secret ones between machines.  *)
(*                                                                         *)
(* Go strings are TLA+ strings; Len, \o and SubSeq act on them character   *)
(* by character, so the string functions below are computed as the Go      *)
(* standard library computes them.  A value that the code binds once and   *)
(* reads several times is passed as a parameter of a helper operator.      *)
(***************************************************************************)
EXTENDS Integers, Sequences, FiniteSets, TLC

(***************************************************************************)
(* package strings                                                         *)
(***************************************************************************)
CharAt(s, i) == SubSeq(s, i, i)

HasPrefix(s, prefix) ==
    Len(prefix) <= Len(s) /\ SubSeq(s, 1, Len(prefix)) = prefix

HasSuffix(s, suffix) ==
    Len(suffix) <= Len(s) /\ SubSeq(s, Len(s) - Len(suffix) + 1, Len(s)) = suffix

Contains(s, substr) ==
    \E i \in 1..(Len(s) - Len(substr) + 1) : SubSeq(s, i, i + Len(substr) - 1) = substr

TrimPrefix(s, prefix) ==
    IF HasPrefix(s, prefix) THEN SubSeq(s, Len(prefix) + 1, Len(s)) ELSE s

TrimSuffix(s, suffix) ==
    IF HasSuffix(s, suffix) THEN SubSeq(s, 1, Len(s) - Len(suffix)) ELSE s

\* unicode.ToLower on the letters the model's strings use (ASCII).
LowerChar(c) ==
    CASE c = "A" -> "a" [] c = "B" -> "b" [] c = "C" -> "c" [] c = "D" -> "d"
      [] c = "E" -> "e" [] c = "F" -> "f" [] c = "G" -> "g" [] c = "H" -> "h"
      [] c = "I" -> "i" [] c = "J" -> "j" [] c = "K" -> "k" [] c = "L" -> "l"
      [] c = "M" -> "m" [] c = "N" -> "n" [] c = "O" -> "o" [] c = "P" -> "p"
      [] c = "Q" -> "q" [] c = "R" -> "r" [] c = "S" -> "s" [] c = "T" -> "t"
      [] c = "U" -> "u" [] c = "V" -> "v" [] c = "W" -> "w" [] c = "X" -> "x"
      [] c = "Y" -> "y" [] c = "Z" -> "z" [] OTHER -> c

RECURSIVE ToLower(_)
ToLower(s) ==
    IF s = "" THEN ""
    ELSE LowerChar(CharAt(s, 1)) \o ToLower(SubSeq(s, 2, Len(s)))

IsSpace(c) == c \in {" ", "\t", "\n", "\r"}

RECURSIVE TrimLeft(_)
TrimLeft(s) ==
    IF s # "" /\ IsSpace(CharAt(s, 1)) THEN TrimLeft(SubSeq(s, 2, Len(s))) ELSE s

RECURSIVE TrimRight(_)
TrimRight(s) ==
    IF s # "" /\ IsSpace(CharAt(s, Len(s))) THEN TrimRight(SubSeq(s, 1, Len(s) - 1)) ELSE s

TrimSpace(s) == TrimRight(TrimLeft(s))

\* Index of the first / last occurrence of the one-character string c, 0 if none.
IndexOf(s, c) ==
    IF \E i \in 1..Len(s) : CharAt(s, i) = c
    THEN CHOOSE i \in 1..Len(s) :
             CharAt(s, i) = c /\ \A j \in 1..(i - 1) : CharAt(s, j) # c
    ELSE 0

LastIndexOf(s, c) ==
    IF \E i \in 1..Len(s) : CharAt(s, i) = c
    THEN CHOOSE i \in 1..Len(s) :
             CharAt(s, i) = c /\ \A j \in (i + 1)..Len(s) : CharAt(s, j) # c
    ELSE 0

\* s cut at index i of a separator: the part before it and the part after it.
CutAt(s, i) == <<SubSeq(s, 1, i - 1), SubSeq(s, i + 1, Len(s))>>

SplitAt(s, i) == IF i = 0 THEN <<s>> ELSE CutAt(s, i)

\* strings.SplitN(s, sep, 2) for a one-character sep: at most two parts.
SplitN2(s, sep) == SplitAt(s, IndexOf(s, sep))

\* strings.Split(s, "/"): every part, the empty ones included.
RECURSIVE SplitSlash(_)
SplitSlash(s) ==
    IF IndexOf(s, "/") = 0 THEN <<s>>
    ELSE <<Head(SplitN2(s, "/"))>> \o SplitSlash(SplitN2(s, "/")[2])

(***************************************************************************)
(* package path/filepath (Unix separator)                                  *)
(***************************************************************************)
RECURSIVE JoinSlash(_)
JoinSlash(parts) ==
    IF Len(parts) = 0 THEN ""
    ELSE IF Len(parts) = 1 THEN parts[1]
    ELSE parts[1] \o "/" \o JoinSlash(Tail(parts))

\* The element stack of filepath.Clean: "." and empty elements dropped, ".."
\* removing the element before it, or dropped at the root of a rooted path.
RECURSIVE CleanStack(_, _, _)
CleanStack(parts, stack, rooted) ==
    IF Len(parts) = 0 THEN stack
    ELSE IF Head(parts) = "" \/ Head(parts) = "."
         THEN CleanStack(Tail(parts), stack, rooted)
    ELSE IF Head(parts) = ".."
         THEN IF Len(stack) > 0 /\ stack[Len(stack)] # ".."
              THEN CleanStack(Tail(parts), SubSeq(stack, 1, Len(stack) - 1), rooted)
              ELSE IF rooted THEN CleanStack(Tail(parts), stack, rooted)
              ELSE CleanStack(Tail(parts), Append(stack, ".."), rooted)
    ELSE CleanStack(Tail(parts), Append(stack, Head(parts)), rooted)

CleanOut(rooted, out) ==
    IF rooted THEN "/" \o out
    ELSE IF out = "" THEN "." ELSE out

CleanRooted(path, rooted) ==
    CleanOut(rooted, JoinSlash(CleanStack(SplitSlash(path), <<>>, rooted)))

Clean(path) == CleanRooted(path, HasPrefix(path, "/"))

JoinNonEmpty(nonEmpty) ==
    IF Len(nonEmpty) = 0 THEN "" ELSE Clean(JoinSlash(nonEmpty))

\* filepath.Join: the non-empty elements joined by "/", then cleaned.
Join(elems) == JoinNonEmpty(SelectSeq(elems, LAMBDA e : e # ""))

RECURSIVE StripTrailingSlashes(_)
StripTrailingSlashes(s) ==
    IF s # "" /\ CharAt(s, Len(s)) = "/"
    THEN StripTrailingSlashes(SubSeq(s, 1, Len(s) - 1))
    ELSE s

OrSlash(b) == IF b = "" THEN "/" ELSE b

LastElement(p) == OrSlash(SubSeq(p, LastIndexOf(p, "/") + 1, Len(p)))

Base(path) == IF path = "" THEN "." ELSE LastElement(StripTrailingSlashes(path))

ExtFrom(path, slash, dot) == IF dot > slash THEN SubSeq(path, dot, Len(path)) ELSE ""

\* filepath.Ext: from the last "." of the final element, "" if it has none.
Ext(path) == ExtFrom(path, LastIndexOf(path, "/"), LastIndexOf(path, "."))

Dir(path) == Clean(SubSeq(path, 1, LastIndexOf(path, "/")))

(***************************************************************************)
(* internal/scanner: the classifier                                        *)
(***************************************************************************)
keyPatterns ==
    <<"key", "secret", "credential", "token", "password",
      "private", "pem", "p12", "pfx", "keystore">>

buildDirs ==
    <<"node_modules", "dist", "build", ".next", "__pycache__", "target", "bin", "obj">>

ideDirs == <<".idea", ".vscode", ".vs">>

secretPatterns ==
    <<"secret", "credential", "password", "token",
      "auth", "api_key", "apikey", ".npmrc", ".netrc",
      "id_rsa", "id_dsa", "id_ecdsa", "id_ed25519">>

depsDirs ==
    <<"node_modules/", "vendor/", ".venv/", "venv/",
      "__pycache__/", ".gradle/", "target/", "Pods/">>

Range(seq) == {seq[i] : i \in 1..Len(seq)}

\* The conditions categorizeFile tests, in the order it tests them.
IsEnvName(name) == HasPrefix(name, ".env") \/ HasPrefix(name, "env.")

IsKeyName(name, ext) ==
    \/ \E pattern \in Range(keyPatterns) : Contains(name, pattern)
    \/ ext = ".pem" \/ ext = ".key" \/ ext = ".p12" \/ ext = ".pfx"

IsConfigName(name, ext) ==
    /\ ext = ".json" \/ ext = ".yaml" \/ ext = ".yml" \/ ext = ".toml" \/ ext = ".ini"
    /\ Contains(name, "config") \/ Contains(name, "setting")

IsBuildPath(path) ==
    \E dir \in Range(buildDirs) :
        Contains(path, dir \o "/") \/ HasPrefix(path, dir \o "/") \/ path = dir

IsCachePath(path, name) ==
    Contains(path, "cache") \/ (HasPrefix(name, ".") /\ Contains(name, "cache"))

IsIdePath(path) ==
    \E dir \in Range(ideDirs) : HasPrefix(path, dir \o "/") \/ path = dir

\* categorizeFile's chain of tests with the config rule before the key rule.
Category_ConfigFirst(path, name, ext) ==
    IF IsEnvName(name) THEN "env"
    ELSE IF IsConfigName(name, ext) THEN "config"
    ELSE IF IsKeyName(name, ext) THEN "key"
    ELSE IF IsBuildPath(path) THEN "build"
    ELSE IF IsCachePath(path, name) THEN "cache"
    ELSE IF IsIdePath(path) THEN "ide"
    ELSE "other"

\* categorizeFile's chain of tests, on the lowered base name and extension.
Category(path, name, ext) ==
    IF IsEnvName(name) THEN "env"
    ELSE IF IsKeyName(name, ext) THEN "key"
    ELSE IF IsConfigName(name, ext) THEN "config"
    ELSE IF IsBuildPath(path) THEN "build"
    ELSE IF IsCachePath(path, name) THEN "cache"
    ELSE IF IsIdePath(path) THEN "ide"
    ELSE "other"

categorizeFile(path) == Category(path, ToLower(Base(path)), ToLower(Ext(path)))

HasSecretPattern(name) ==
    \E pattern \in Range(secretPatterns) : Contains(name, pattern)

\* isSecretFile without the test of the category: the name patterns alone.
isSecretFile_PatternsOnly(path, category) == HasSecretPattern(ToLower(Base(path)))

isSecretFile(path, category) ==
    IF category = "env" \/ category = "key" THEN TRUE
    ELSE HasSecretPattern(ToLower(Base(path)))

\* isInDepsDir that looks for a dependency directory at the start of the path only.
isInDepsDir_PrefixOnly(path) ==
    \E dir \in Range(depsDirs) : HasPrefix(path, dir)

isInDepsDir(path) ==
    \E dir \in Range(depsDirs) : HasPrefix(path, dir) \/ Contains(path, "/" \o dir)

(***************************************************************************)
(* The filesystem: a function from cleaned absolute paths to entries.      *)
(***************************************************************************)
NoEnt == [kind |-> "none", size |-> 0, data |-> ""]
DirEnt == [kind |-> "dir", size |-> 0, data |-> ""]
FileEnt(size, data) == [kind |-> "file", size |-> size, data |-> data]

\* os.Stat
Stat(fs, path) == IF path \in DOMAIN fs THEN fs[path] ELSE NoEnt

\* filepath.Abs: a relative path is joined to the working directory.
Abs(cwd, path) == IF HasPrefix(path, "/") THEN Clean(path) ELSE Join(<<cwd, path>>)

\* A directory and every directory above it; parent is Dir(path).
RECURSIVE Upwards(_, _)
Upwards(path, parent) ==
    IF parent = path THEN {path} ELSE {path} \cup Upwards(parent, Dir(parent))

SelfAndAncestors(path) == Upwards(path, Dir(path))

(***************************************************************************)
(* internal/scanner: Scanner.Scan                                          *)
(***************************************************************************)
NewScanner == [ShowAll |-> FALSE, ExcludeDeps |-> TRUE]

\* git rev-parse --git-dir, run in path: succeeds inside a working tree.
isGitRepo(fs, path) ==
    /\ Stat(fs, path).kind = "dir"
    /\ \E d \in SelfAndAncestors(path) : Stat(fs, Join(<<d, ".git">>)).kind = "dir"

\* The lines of git status --ignored --porcelain that start with "!! ".
RECURSIVE getGitIgnoredFiles(_)
getGitIgnoredFiles(lines) ==
    IF Len(lines) = 0 THEN <<>>
    ELSE IF HasPrefix(Head(lines), "!! ")
         THEN <<TrimSuffix(TrimPrefix(Head(lines), "!! "), "/")>>
                  \o getGitIgnoredFiles(Tail(lines))
         ELSE getGitIgnoredFiles(Tail(lines))

EmptyResult(absPath) ==
    [err |-> FALSE, RootPath |-> absPath, IgnoredFiles |-> <<>>,
     TotalSize |-> 0, SecretCount |-> 0]

ScanError == [err |-> TRUE, RootPath |-> "", IgnoredFiles |-> <<>>,
              TotalSize |-> 0, SecretCount |-> 0]

NewIgnoredFile(path, size, category) ==
    [Path |-> path, Size |-> size, Category |-> category,
     IsSecret |-> isSecretFile(path, category)]

\* Include with the size added before the file is known to be included.
Include_SizeBeforeFilter(s, file, result) ==
    IF s.ShowAll \/ file.IsSecret
    THEN [result EXCEPT
            !.IgnoredFiles = Append(@, file),
            !.TotalSize = @ + file.Size,
            !.SecretCount = IF file.IsSecret THEN @ + 1 ELSE @]
    ELSE [result EXCEPT !.TotalSize = @ + file.Size]

\* The end of the loop body: the file is appended, and counted, if it is
\* secret or all files are shown.
Include(s, file, result) ==
    IF s.ShowAll \/ file.IsSecret
    THEN [result EXCEPT
            !.IgnoredFiles = Append(@, file),
            !.TotalSize = @ + file.Size,
            !.SecretCount = IF file.IsSecret THEN @ + 1 ELSE @]
    ELSE result

\* The loop body after os.Stat: info is what it returned.
ScanStat(s, info, path, result) ==
    IF info.kind = "none" THEN result
    ELSE IF info.kind = "dir" THEN result
    ELSE Include(s, NewIgnoredFile(path, info.size, categorizeFile(path)), result)

\* One pass of the loop over the ignored paths.
ScanPath(s, fs, absPath, path, result) ==
    IF s.ExcludeDeps /\ isInDepsDir(path) THEN result
    ELSE ScanStat(s, Stat(fs, Join(<<absPath, path>>)), path, result)

RECURSIVE ScanLoop(_, _, _, _, _)
ScanLoop(s, fs, absPath, ignoredPaths, result) ==
    IF Len(ignoredPaths) = 0 THEN result
    ELSE ScanLoop(s, fs, absPath, Tail(ignoredPaths),
                  ScanPath(s, fs, absPath, Head(ignoredPaths), result))

\* Scan that asks git for the ignored files before it tests for a repository.
ScanAbs_QueryFirst(s, fs, absPath, git) ==
    IF ~git.ok THEN ScanError
    ELSE IF ~isGitRepo(fs, absPath) THEN EmptyResult(absPath)
    ELSE ScanLoop(s, fs, absPath, getGitIgnoredFiles(git.lines), EmptyResult(absPath))

\* Scan after filepath.Abs. git is the outcome of git status in the root.
ScanAbs(s, fs, absPath, git) ==
    IF ~isGitRepo(fs, absPath) THEN EmptyResult(absPath)
    ELSE IF ~git.ok THEN ScanError
    ELSE ScanLoop(s, fs, absPath, getGitIgnoredFiles(git.lines), EmptyResult(absPath))

Scan(s, fs, cwd, rootPath, git) == ScanAbs(s, fs, Abs(cwd, rootPath), git)

(***************************************************************************)
(* cli: export                                                             *)
(***************************************************************************)
\* The bytes that names are made of, in the order Go's string < compares them.
ByteOrder == "-./0123456789ABCDEFGHIJKLMNOPQRSTUVWXYZ_abcdefghijklmnopqrstuvwxyz"

RECURSIVE StrLess(_, _)
StrLess(a, b) ==
    IF a = "" THEN b # ""
    ELSE IF b = "" THEN FALSE
    ELSE IF CharAt(a, 1) = CharAt(b, 1)
         THEN StrLess(SubSeq(a, 2, Len(a)), SubSeq(b, 2, Len(b)))
         ELSE IndexOf(ByteOrder, CharAt(a, 1)) < IndexOf(ByteOrder, CharAt(b, 1))

Least(S) == CHOOSE x \in S : \A y \in S \ {x} : StrLess(x, y)

RECURSIVE SortStrings(_)
SortStrings(S) ==
    IF S = {} THEN <<>>
    ELSE <<Least(S)>> \o SortStrings(S \ {Least(S)})

\* readDirNames: the names in a directory, sorted.
ReadDirNames(fs, dir) ==
    SortStrings({Base(p) : p \in {q \in DOMAIN fs : q # dir /\ Dir(q) = dir}})

skipDirs == <<"node_modules", "vendor", ".cache", "__pycache__">>

Children(path, names) == [i \in 1..Len(names) |-> Join(<<path, names[i]>>)]

\* The walk whose callback does not prune the directories of skipDirs.
RECURSIVE Walk_NoPrune(_, _)
Walk_NoPrune(fs, pending) ==
    IF Len(pending) = 0 THEN <<>>
    ELSE IF Stat(fs, Head(pending)).kind # "dir" THEN Walk_NoPrune(fs, Tail(pending))
    ELSE IF Base(Head(pending)) = ".git"
         THEN <<Dir(Head(pending))>> \o Walk_NoPrune(fs, Tail(pending))
    ELSE Walk_NoPrune(fs, Children(Head(pending), ReadDirNames(fs, Head(pending)))
                              \o Tail(pending))

\* filepath.Walk with the callback of collectReposRecursive: the repository
\* paths that the callback hands to collectSingleRepo, in the order of the walk.
\* pending holds the paths still to visit, the next one first. A directory
\* named .git yields its parent and is not entered; a directory whose name is
\* in skipDirs is not entered; any other directory is followed by its entries.
RECURSIVE Walk(_, _)
Walk(fs, pending) ==
    IF Len(pending) = 0 THEN <<>>
    ELSE IF Stat(fs, Head(pending)).kind # "dir" THEN Walk(fs, Tail(pending))
    ELSE IF Base(Head(pending)) = ".git"
         THEN <<Dir(Head(pending))>> \o Walk(fs, Tail(pending))
    ELSE IF Base(Head(pending)) \in Range(skipDirs) THEN Walk(fs, Tail(pending))
    ELSE Walk(fs, Children(Head(pending), ReadDirNames(fs, Head(pending)))
                      \o Tail(pending))

WalkRepos(fs, rootPath) == Walk(fs, <<rootPath>>)

\* The loop of collectSingleRepo with the test of IsSecret inverted.
RECURSIVE SecretPaths_Inverted(_)
SecretPaths_Inverted(files) ==
    IF Len(files) = 0 THEN <<>>
    ELSE IF ~Head(files).IsSecret
         THEN <<Head(files).Path>> \o SecretPaths_Inverted(Tail(files))
         ELSE SecretPaths_Inverted(Tail(files))

\* The loop of collectSingleRepo: the paths of the secret files of the result.
RECURSIVE SecretPaths(_)
SecretPaths(files) ==
    IF Len(files) = 0 THEN <<>>
    ELSE IF Head(files).IsSecret
         THEN <<Head(files).Path>> \o SecretPaths(Tail(files))
         ELSE SecretPaths(Tail(files))

NoRepos == [err |-> FALSE, repos |-> <<>>]

RepoExportOf(path, files) ==
    IF Len(files) = 0 THEN NoRepos
    ELSE [err |-> FALSE,
          repos |-> <<[Name |-> Base(path), Path |-> path, Files |-> files]>>]

\* collectSingleRepo after s.Scan returned result.
CollectResult(path, result) ==
    IF result.err THEN [err |-> TRUE, repos |-> <<>>]
    ELSE IF Len(result.IgnoredFiles) = 0 THEN NoRepos
    ELSE RepoExportOf(path, SecretPaths(result.IgnoredFiles))

\* path is absolute: runExport resolved it. git is the outcome of git status
\* in each directory.
collectSingleRepo(s, fs, git, path) ==
    CollectResult(path, Scan(s, fs, "/", path, git[path]))

ReposIfOk(one) == IF one.err THEN <<>> ELSE one.repos

RECURSIVE CollectEach(_, _, _, _)
CollectEach(s, fs, git, repoPaths) ==
    IF Len(repoPaths) = 0 THEN <<>>
    ELSE ReposIfOk(collectSingleRepo(s, fs, git, Head(repoPaths)))
             \o CollectEach(s, fs, git, Tail(repoPaths))

\* A scan that fails inside the walk is skipped; the walk itself does not fail.
collectReposRecursive(s, fs, git, rootPath) ==
    [err |-> FALSE, repos |-> CollectEach(s, fs, git, WalkRepos(fs, rootPath))]

\* The (repository, file) pairs in the order createExportZip writes them.
RECURSIVE RepoPairs(_)
RepoPairs(repos) ==
    IF Len(repos) = 0 THEN <<>>
    ELSE [i \in 1..Len(Head(repos).Files) |->
             [Name |-> Head(repos).Name, Path |-> Head(repos).Path,
              File |-> Head(repos).Files[i]]]
         \o RepoPairs(Tail(repos))

\* addFileToZip after os.Open and file.Stat: a missing source fails and nothing
\* is written; a directory gets its header written before io.Copy fails.
AddOpened(info, zipPath) ==
    [ok |-> info.kind = "file",
     wrote |-> info.kind # "none",
     entry |-> [Name |-> zipPath, Size |-> info.size, Data |-> info.data]]

addFileToZip(fs, sourcePath, zipPath) == AddOpened(Stat(fs, sourcePath), zipPath)

ManifestEntry == [Name |-> "manifest.yaml", Size |-> 1, Data |-> "manifest"]

SrcPatternsPath == "/home/u/.config/igloc/patterns.yaml"

PatternsEntry(patterns) ==
    IF patterns.kind = "file"
    THEN <<[Name |-> "patterns.yaml", Size |-> patterns.size, Data |-> patterns.data]>>
    ELSE <<>>

\* The entries createExportZip writes before the files: the manifest, then
\* patterns.yaml if it can be read.
ZipHead(fs) == <<ManifestEntry>> \o PatternsEntry(Stat(fs, SrcPatternsPath))

NewManifest(repos) == [Version |-> 1, Machine |-> "src-host", Repos |-> repos]

NoManifest == [Version |-> 0, Machine |-> "", Repos |-> <<>>]

(***************************************************************************)
(* cli: import                                                             *)
(***************************************************************************)
DstCwd == "/home/v"

DstPatternsPath == "/home/v/.config/igloc/patterns.yaml"

fileExists(fs, path) == Stat(fs, Abs(DstCwd, path)).kind # "none"

dirExists(fs, path) == path # "" /\ Stat(fs, Abs(DstCwd, path)).kind = "dir"

\* resolveDestPath that looks for the original path before the base directory.
resolveDestPath_PathFirst(baseDir, fs, repo, filePath) ==
    IF dirExists(fs, repo.Path) THEN Join(<<repo.Path, filePath>>)
    ELSE IF baseDir # "" THEN Join(<<baseDir, repo.Name, filePath>>)
    ELSE Join(<<".", repo.Name, filePath>>)

resolveDestPath(baseDir, fs, repo, filePath) ==
    IF baseDir # "" THEN Join(<<baseDir, repo.Name, filePath>>)
    ELSE IF dirExists(fs, repo.Path) THEN Join(<<repo.Path, filePath>>)
    ELSE Join(<<".", repo.Name, filePath>>)

\* readManifest that returns an empty manifest when the archive has none.
readManifest_EmptyIfAbsent(arch) ==
    IF \E i \in 1..Len(arch.entries) : arch.entries[i].Name = "manifest.yaml"
    THEN [ok |-> TRUE, manifest |-> arch.doc]
    ELSE [ok |-> TRUE, manifest |-> NoManifest]

\* readManifest: the decoded manifest.yaml entry, or an error if there is none.
readManifest(arch) ==
    IF \E i \in 1..Len(arch.entries) : arch.entries[i].Name = "manifest.yaml"
    THEN [ok |-> TRUE, manifest |-> arch.doc]
    ELSE [ok |-> FALSE, manifest |-> NoManifest]

\* One line of the preview: the file, where it will go, and whether a file
\* is there already.
PreviewLine(fs, pair, destPath) ==
    [Name |-> pair.Name, Path |-> pair.Path, File |-> pair.File,
     Dest |-> destPath, Overwrite |-> fileExists(fs, destPath)]

PreviewLines(baseDir, fs, pairs) ==
    [i \in 1..Len(pairs) |->
        PreviewLine(fs, pairs[i],
                    resolveDestPath(baseDir, fs,
                                    [Name |-> pairs[i].Name, Path |-> pairs[i].Path],
                                    pairs[i].File))]

\* The lines of the preview: one for each file of each repository of the manifest.
Preview(baseDir, fs, manifest) == PreviewLines(baseDir, fs, RepoPairs(manifest.Repos))

\* runImport after the preview, with the dry-run return taken only when the
\* import is not confirmed in advance.
AfterPreview_YesSkipsDryRun(dryRun, yes) ==
    IF dryRun /\ ~yes THEN "done" ELSE IF ~yes THEN "confirm" ELSE "files"

\* runImport after the preview: return on a dry run, else ask unless --yes.
AfterPreview(dryRun, yes) ==
    IF dryRun THEN "done" ELSE IF ~yes THEN "confirm" ELSE "files"

\* The test of the response that cancels only on an explicit no.
Affirmative_UnlessNo(response) == response # "n" /\ response # "no"

Affirmative(response) == ~(response # "y" /\ response # "yes")

\* The line read from standard input confirms the import.
Confirmed(line) == Affirmative(TrimSpace(ToLower(line)))

LastNamed(repos, name) ==
    CHOOSE i \in 1..Len(repos) :
        repos[i].Name = name /\ \A j \in (i + 1)..Len(repos) : repos[j].Name # name

\* repoMap: the last repository of the manifest with each name.
RepoMap(manifest) ==
    [name \in {manifest.Repos[i].Name : i \in 1..Len(manifest.Repos)} |->
        manifest.Repos[LastNamed(manifest.Repos, name)]]

MkdirChain(fs, chain) ==
    IF \E d \in chain : Stat(fs, d).kind = "file"
    THEN [ok |-> FALSE, fs |-> fs]
    ELSE [ok |-> TRUE, fs |-> [d \in chain \ DOMAIN fs |-> DirEnt] @@ fs]

\* os.MkdirAll of an absolute path: fails if the path, or a directory above
\* it, is a file; else every missing directory down to the path is made.
MkdirAll(fs, path) == MkdirChain(fs, SelfAndAncestors(path))

\* os.Create and the write of the data: fails if the path is a directory or
\* its parent is not one.
WriteFile(fs, path, size, data) ==
    IF Stat(fs, path).kind = "dir" \/ Stat(fs, Dir(path)).kind # "dir"
    THEN [ok |-> FALSE, fs |-> fs]
    ELSE [ok |-> TRUE,
          fs |-> [p \in DOMAIN fs \cup {path} |->
                     IF p = path THEN FileEnt(size, data) ELSE fs[p]]]

extractFile(fs, entry, destPath) ==
    WriteFile(fs, Abs(DstCwd, destPath), entry.Size, entry.Data)

Skipped(fs) == [fs |-> fs, outcome |-> "skip", path |-> ""]

\* The end of the loop body of importFiles: wrote is what extractFile returned.
Extracted(made, wrote, filePath, destPath) ==
    IF ~wrote.ok THEN [fs |-> made.fs, outcome |-> "fail", path |-> filePath]
    ELSE [fs |-> wrote.fs, outcome |-> "ok", path |-> destPath]

\* The loop body after os.MkdirAll: made is what it returned.
ExtractInto(fs, made, entry, filePath, destPath) ==
    IF ~made.ok THEN [fs |-> fs, outcome |-> "fail", path |-> filePath]
    ELSE Extracted(made, extractFile(made.fs, entry, destPath), filePath, destPath)

\* The loop body after resolveDestPath.
ExtractTo(fs, entry, filePath, destPath) ==
    ExtractInto(fs, MkdirAll(fs, Dir(Abs(DstCwd, destPath))), entry, filePath, destPath)

\* The loop body after strings.SplitN.
ImportParts(baseDir, fs, repoMap, entry, parts) ==
    IF Len(parts) < 2 THEN Skipped(fs)
    ELSE IF parts[1] \notin DOMAIN repoMap THEN Skipped(fs)
    ELSE ExtractTo(fs, entry, parts[2],
                   resolveDestPath(baseDir, fs, repoMap[parts[1]], parts[2]))

\* One pass of the loop of importFiles over the entries of the archive: the
\* filesystem after it and what it printed: nothing ("skip"), the destination
\* with a check mark ("ok") or the file path with a cross ("fail").
importEntry(baseDir, fs, manifest, entry) ==
    IF ~HasPrefix(entry.Name, "files/") THEN Skipped(fs)
    ELSE ImportParts(baseDir, fs, RepoMap(manifest), entry,
                     SplitN2(TrimPrefix(entry.Name, "files/"), "/"))

FirstNamed(entries, name) ==
    CHOOSE k \in 1..Len(entries) :
        entries[k].Name = name /\ \A j \in 1..(k - 1) : entries[j].Name # name

PatternsWritten(made, wrote) ==
    IF ~wrote.ok THEN [fs |-> made.fs, warning |-> TRUE]
    ELSE [fs |-> wrote.fs, warning |-> FALSE]

PatternsInto(fs, made, entry) ==
    IF ~made.ok THEN [fs |-> fs, warning |-> TRUE]
    ELSE PatternsWritten(made, WriteFile(made.fs, DstPatternsPath, entry.Size, entry.Data))

\* importPatterns: patterns.yaml of the archive written to the configuration
\* directory; a failure is a warning.
importPatterns(fs, arch) ==
    IF \E i \in 1..Len(arch.entries) : arch.entries[i].Name = "patterns.yaml"
    THEN PatternsInto(fs, MkdirAll(fs, Dir(DstPatternsPath)),
                      arch.entries[FirstNamed(arch.entries, "patterns.yaml")])
    ELSE [fs |-> fs, warning |-> FALSE]

(***************************************************************************)
(* State                                                                   *)
(***************************************************************************)
VARIABLES
    cPath,      \* classifier: the path given to categorizeFile
    cCategory,  \* classifier: the category returned
    cSecret,    \* classifier: what isSecretFile returned for it
    cPc,        \* classifier: "input" | "classified"
    scanner,    \* Scanner: [ShowAll, ExcludeDeps]
    scanRoot,   \* Scan's rootPath argument
    scanResult, \* what Scan returned
    sPc,        \* Scan: "call" | "returned"
    walk,       \* scan --recursive: its position, the directories it handed to
                \* Scan, the results it kept and its totals
    srcFS,      \* the filesystem of the scanning / exporting machine
    srcFS0,     \* that filesystem as it was when the command started
    gitOut,     \* the outcome of git status in each directory: [ok, lines]
    exp,        \* runExport: its flags, its position and what it collected
    archive,    \* the zip file: [exists, entries, doc]
    imp,        \* runImport: its flags, its position and what it printed
    dstFS,      \* the filesystem of the importing machine
    dstFS0      \* that filesystem as it was when import started

classifyVars == <<cPath, cCategory, cSecret, cPc>>
scanVars == <<scanner, scanRoot, scanResult, sPc, walk>>
srcVars == <<srcFS, srcFS0, gitOut>>
exportVars == <<exp, archive>>
importVars == <<imp, dstFS, dstFS0>>
vars == <<classifyVars, scanVars, srcVars, exportVars, importVars>>

(***************************************************************************)
(* Bounds                                                                  *)
(***************************************************************************)
\* The number of path elements of a path given to the classifier.
MaxDepth == 2
\* The number of lines of git status output in a scan.
MaxLines == 3
\* The number of files that vanish between the scan and the build of the archive.
MaxVanish == 1

SeqsUpTo(S, n) == UNION {[1..k -> S] : k \in 0..n}

(***************************************************************************)
(* The classifier applied to one path                                      *)
(***************************************************************************)
Segments ==
    {".env", ".env.production", "ENV.local", "app.secret.yaml", "config",
     "settings.json", "Config.YAML", "secret.config.yaml", "build", "output.log",
     "robin", "notes.txt", "node_modules", ".cache", ".idea", ".vscode",
     "server.PEM", "id_rsa", "monkey.txt", "bin", ".eslintcache", "auth.yaml"}

ClassifyPaths == {JoinSlash(q) : q \in SeqsUpTo(Segments, MaxDepth) \ {<<>>}}

ClassifyIdle ==
    /\ cPath = "" /\ cCategory = "" /\ cSecret = FALSE /\ cPc = "idle"

WalkIdle ==
    [pc |-> "idle", err |-> FALSE, scanned |-> <<>>, allResults |-> <<>>,
     totalSecrets |-> 0, totalFiles |-> 0]

ScanIdle ==
    /\ scanner = NewScanner /\ scanRoot = "" /\ scanResult = ScanError /\ sPc = "idle"
    /\ walk = WalkIdle

SrcIdle ==
    /\ srcFS = <<>> /\ srcFS0 = <<>> /\ gitOut = <<>>

ExpIdle ==
    [pc |-> "idle", path |-> "", recursive |-> FALSE, includeDeps |-> FALSE,
     repos |-> <<>>, k |-> 0, gone |-> 0, added |-> <<>>, warnings |-> <<>>,
     err |-> FALSE]

NoArchive == [exists |-> FALSE, entries |-> <<>>, doc |-> NoManifest]

ImpIdle ==
    [pc |-> "idle", yes |-> FALSE, dryRun |-> FALSE, baseDir |-> "",
     manifest |-> NoManifest, preview |-> <<>>, i |-> 0, asked |-> FALSE,
     line |-> "", cancelled |-> FALSE, written |-> <<>>, failed |-> <<>>,
     warning |-> FALSE, err |-> ""]

PipelineIdle ==
    /\ exp = ExpIdle /\ archive = NoArchive
    /\ imp = ImpIdle /\ dstFS = <<>> /\ dstFS0 = <<>>

InitClassify ==
    /\ cPath \in ClassifyPaths
    /\ cCategory = ""
    /\ cSecret = FALSE
    /\ cPc = "input"
    /\ ScanIdle
    /\ SrcIdle
    /\ PipelineIdle

Classify ==
    /\ cPc = "input"
    /\ cCategory' = categorizeFile(cPath)
    /\ cSecret' = isSecretFile(cPath, categorizeFile(cPath))
    /\ cPc' = "classified"
    /\ UNCHANGED <<cPath, scanVars, srcVars, exportVars, importVars>>

NextClassify == Classify

SpecClassify == InitClassify /\ [][NextClassify]_vars

(***************************************************************************)
(* One call of Scanner.Scan                                                *)
(***************************************************************************)
ScanCwd == "/work"

GitLines ==
    {"!! .env", "!! config/app.secret.yaml", "!! build/output.log",
     "!! node_modules/pkg/.env", "!! packages/web/node_modules/pkg/.env",
     "!! node_modules/", "!! config/auth.yaml", "?? untracked.key"}

ScanDirs ==
    "/" :> DirEnt @@ "/work" :> DirEnt @@ "/work/plain" :> DirEnt
    @@ "/work/my-app" :> DirEnt @@ "/work/my-app/.git" :> DirEnt
    @@ "/work/my-app/config" :> DirEnt @@ "/work/my-app/build" :> DirEnt
    @@ "/work/my-app/node_modules" :> DirEnt
    @@ "/work/my-app/node_modules/pkg" :> DirEnt
    @@ "/work/my-app/packages" :> DirEnt @@ "/work/my-app/packages/web" :> DirEnt
    @@ "/work/my-app/packages/web/node_modules" :> DirEnt
    @@ "/work/my-app/packages/web/node_modules/pkg" :> DirEnt

\* Every listed path is a file.
ScanFSAll ==
    "/work/my-app/.env" :> FileEnt(1, "env of my-app")
    @@ "/work/my-app/config/app.secret.yaml" :> FileEnt(2, "app secret")
    @@ "/work/my-app/build/output.log" :> FileEnt(4, "build log")
    @@ "/work/my-app/node_modules/pkg/.env" :> FileEnt(8, "env of pkg")
    @@ "/work/my-app/packages/web/node_modules/pkg/.env" :> FileEnt(16, "env of web pkg")
    @@ "/work/my-app/config/auth.yaml" :> FileEnt(32, "auth")
    @@ "/work/my-app/untracked.key" :> FileEnt(64, "untracked key")
    @@ ScanDirs

\* .env has vanished and config/auth.yaml is a directory.
ScanFSSome ==
    "/work/my-app/config/app.secret.yaml" :> FileEnt(2, "app secret")
    @@ "/work/my-app/build/output.log" :> FileEnt(4, "build log")
    @@ "/work/my-app/node_modules/pkg/.env" :> FileEnt(8, "env of pkg")
    @@ "/work/my-app/packages/web/node_modules/pkg/.env" :> FileEnt(16, "env of web pkg")
    @@ "/work/my-app/config/auth.yaml" :> DirEnt
    @@ ScanDirs

\* A repository, and a directory that is in no repository.
ScanRoots == {"/work/my-app", "plain"}

GitFailed == [ok |-> FALSE, lines |-> <<>>]

\* git status lists lines in a repository, and fails there or outside one.
GitOutcomes(fs, dir) ==
    IF isGitRepo(fs, dir)
    THEN {[ok |-> TRUE, lines |-> l] : l \in SeqsUpTo(GitLines, MaxLines)} \cup {GitFailed}
    ELSE {GitFailed}

InitScan ==
    /\ scanner \in [ShowAll : BOOLEAN, ExcludeDeps : BOOLEAN]
    /\ scanRoot \in ScanRoots
    /\ srcFS \in {ScanFSAll, ScanFSSome}
    /\ srcFS0 = srcFS
    /\ \E g \in GitOutcomes(srcFS, Abs(ScanCwd, scanRoot)) :
           gitOut = [d \in {Abs(ScanCwd, scanRoot)} |-> g]
    /\ scanResult = ScanError
    /\ sPc = "call"
    /\ walk = WalkIdle
    /\ ClassifyIdle
    /\ PipelineIdle

DoScan ==
    /\ sPc = "call"
    /\ scanResult' = Scan(scanner, srcFS, ScanCwd, scanRoot, gitOut[Abs(ScanCwd, scanRoot)])
    /\ sPc' = "returned"
    /\ UNCHANGED <<scanner, scanRoot, walk, srcVars, classifyVars, exportVars, importVars>>

NextScan == DoScan

SpecScan == InitScan /\ [][NextScan]_vars

(***************************************************************************)
(* Export on one machine, then import of the archive on another            *)
(***************************************************************************)
SrcBase ==
    "/" :> DirEnt @@ "/work" :> DirEnt @@ "/home" :> DirEnt @@ "/home/u" :> DirEnt

MyAppTree ==
    "/work/my-app" :> DirEnt @@ "/work/my-app/.git" :> DirEnt
    @@ "/work/my-app/.env" :> FileEnt(1, "env of my-app")
    @@ "/work/my-app/config" :> DirEnt
    @@ "/work/my-app/config/.env.local" :> FileEnt(2, "local env of my-app")
    @@ "/work/my-app/build" :> DirEnt
    @@ "/work/my-app/build/output.log" :> FileEnt(4, "build log")
    @@ "/work/my-app/node_modules" :> DirEnt
    @@ "/work/my-app/node_modules/pkg" :> DirEnt
    @@ "/work/my-app/node_modules/pkg/.env" :> FileEnt(8, "env of pkg")

ApiTree ==
    "/work/api" :> DirEnt @@ "/work/api/.git" :> DirEnt
    @@ "/work/api/id_rsa" :> FileEnt(16, "private key of api")
    @@ "/work/api/notes.txt" :> FileEnt(32, "notes")
    @@ "/work/api/tmp" :> DirEnt

\* A second repository whose directory is named my-app.
OldTree ==
    "/work/old" :> DirEnt @@ "/work/old/my-app" :> DirEnt
    @@ "/work/old/my-app/.git" :> DirEnt
    @@ "/work/old/my-app/.env" :> FileEnt(64, "env of old my-app")

\* A repository below a directory that the walk prunes.
VendorTree ==
    "/work/vendor" :> DirEnt @@ "/work/vendor/lib" :> DirEnt
    @@ "/work/vendor/lib/.git" :> DirEnt
    @@ "/work/vendor/lib/.env" :> FileEnt(128, "env of vendor lib")

\* The root directory is itself a repository.
RootTree ==
    "/.git" :> DirEnt @@ "/.env" :> FileEnt(256, "env of root")

PatternsTree ==
    "/home/u/.config" :> DirEnt @@ "/home/u/.config/igloc" :> DirEnt
    @@ SrcPatternsPath :> FileEnt(512, "patterns")

MyAppLines ==
    <<"!! .env", "!! build/output.log", "!! config/.env.local",
      "!! node_modules/pkg/.env">>

ApiLines == <<"!! id_rsa", "!! notes.txt", "!! tmp/">>

Listed(lines) == [ok |-> TRUE, lines |-> lines]

\* The repository a directory is in: the nearest directory, from it upwards,
\* that holds .git.
RepoRootOf(fs, dir) ==
    CHOOSE d \in SelfAndAncestors(dir) :
        /\ Stat(fs, Join(<<d, ".git">>)).kind = "dir"
        /\ \A e \in SelfAndAncestors(dir) :
               Stat(fs, Join(<<e, ".git">>)).kind = "dir" => Len(e) <= Len(d)

\* git status in every directory: porcelain paths are relative to the root of
\* the repository the directory is in; outside a repository git fails.
GitOf(fs, status) ==
    [d \in {p \in DOMAIN fs : fs[p].kind = "dir"} |->
        IF isGitRepo(fs, d) THEN status[RepoRootOf(fs, d)] ELSE GitFailed]

Machines ==
    {[fs |-> SrcBase @@ MyAppTree @@ ApiTree @@ VendorTree @@ PatternsTree,
      status |-> "/work/my-app" :> Listed(MyAppLines) @@ "/work/api" :> Listed(ApiLines)
                 @@ "/work/vendor/lib" :> Listed(<<"!! .env">>)],
     [fs |-> SrcBase @@ MyAppTree @@ OldTree,
      status |-> "/work/my-app" :> Listed(MyAppLines)
                 @@ "/work/old/my-app" :> Listed(<<"!! .env">>)],
     [fs |-> SrcBase @@ RootTree @@ MyAppTree,
      status |-> "/" :> Listed(<<"!! .env">>) @@ "/work/my-app" :> Listed(MyAppLines)],
     [fs |-> SrcBase @@ MyAppTree @@ ApiTree,
      status |-> "/work/my-app" :> Listed(MyAppLines) @@ "/work/api" :> GitFailed]}

ExportPaths == {"/work/my-app", "/work/api", "/work", "/"}

DstBase ==
    "/" :> DirEnt @@ "/home" :> DirEnt @@ "/home/v" :> DirEnt @@ "/tmp" :> DirEnt

\* The original path of my-app exists and holds .env; that of api is a file.
DstHasRepo ==
    DstBase @@ "/work" :> DirEnt @@ "/work/my-app" :> DirEnt
    @@ "/work/my-app/.env" :> FileEnt(3, "older env") @@ "/work/api" :> FileEnt(5, "api")

\* Files and directories in the way of the import.
DstBlocked ==
    DstBase @@ "/tmp/restore" :> DirEnt @@ "/tmp/restore/my-app" :> FileEnt(7, "in the way")
    @@ "/home/v/my-app" :> DirEnt @@ "/home/v/my-app/.env" :> DirEnt
    @@ "/home/v/.config" :> FileEnt(9, "not a directory")

DstMachines == {DstBase, DstHasRepo, DstBlocked}

BaseDirs == {"", "/tmp/restore"}

\* What reader.ReadString returns: a line with its newline, or "" at end of input.
ResponseLines == {"y\n", "YES\n", " yes \n", "n\n", "\n", "", "maybe\n", "yy\n"}

Init ==
    /\ \E m \in Machines :
           /\ srcFS = m.fs
           /\ srcFS0 = m.fs
           /\ gitOut = GitOf(m.fs, m.status)
    /\ \E path \in ExportPaths, recursive \in BOOLEAN, includeDeps \in BOOLEAN :
           exp = [ExpIdle EXCEPT !.pc = "start", !.path = path,
                                 !.recursive = recursive, !.includeDeps = includeDeps]
    /\ archive = NoArchive
    /\ imp = ImpIdle
    /\ dstFS = <<>>
    /\ dstFS0 = <<>>
    /\ ClassifyIdle
    /\ ScanIdle

ExportScanner(includeDeps) == [NewScanner EXCEPT !.ExcludeDeps = ~includeDeps]

Collect(s, fs, git, path, recursive) ==
    IF recursive
    THEN collectReposRecursive(s, fs, git, path)
    ELSE collectSingleRepo(s, fs, git, path)

\* runExport after the repositories are collected: got is what the collector
\* returned.
Collected(got) ==
    exp' = IF got.err THEN [exp EXCEPT !.pc = "done", !.err = TRUE]
           ELSE IF Len(got.repos) = 0 THEN [exp EXCEPT !.pc = "done"]
           ELSE [exp EXCEPT !.pc = "zip", !.repos = got.repos]

\* runExport up to the creation of the archive: collect the repositories;
\* with none, or on an error, the command ends and writes no archive.
ExportCollect ==
    /\ exp.pc = "start"
    /\ Collected(Collect(ExportScanner(exp.includeDeps), srcFS, gitOut,
                         exp.path, exp.recursive))
    /\ UNCHANGED <<archive, srcVars, importVars, classifyVars, scanVars>>

\* createExportZip: the manifest first, then patterns.yaml.
ExportCreateZip ==
    /\ exp.pc = "zip"
    /\ archive' = [exists |-> FALSE, entries |-> ZipHead(srcFS),
                   doc |-> NewManifest(exp.repos)]
    /\ exp' = [exp EXCEPT !.pc = "files", !.k = 1]
    /\ UNCHANGED <<srcVars, importVars, classifyVars, scanVars>>

Without(fs, path) == [p \in DOMAIN fs \ {path} |-> fs[p]]

\* The loop body of createExportZip that returns the error of addFileToZip.
AddedFile_AbortOnFailure(pair, vanished, r) ==
    /\ archive' = [archive EXCEPT
          !.entries = IF r.wrote THEN Append(@, r.entry) ELSE @]
    /\ exp' = IF r.ok
              THEN [exp EXCEPT !.k = @ + 1,
                               !.gone = IF vanished THEN @ + 1 ELSE @,
                               !.added = Append(@, pair)]
              ELSE [exp EXCEPT !.pc = "done", !.err = TRUE,
                               !.gone = IF vanished THEN @ + 1 ELSE @]

\* The loop body of createExportZip after addFileToZip returned r.
AddedFile(pair, vanished, r) ==
    /\ archive' = [archive EXCEPT
          !.entries = IF r.wrote THEN Append(@, r.entry) ELSE @]
    /\ exp' = [exp EXCEPT
          !.k = @ + 1,
          !.gone = IF vanished THEN @ + 1 ELSE @,
          !.added = IF r.ok THEN Append(@, pair) ELSE @,
          !.warnings = IF r.ok THEN @ ELSE Append(@, pair)]

\* The loop body of createExportZip on the filesystem as it is at that moment.
AddFileFrom(pair, vanished, fs) ==
    /\ srcFS' = fs
    /\ AddedFile(pair, vanished,
                 addFileToZip(fs, Join(<<pair.Path, pair.File>>),
                              Join(<<"files", pair.Name, pair.File>>)))

AddFile(pair, vanished) ==
    AddFileFrom(pair, vanished,
                IF vanished THEN Without(srcFS, Join(<<pair.Path, pair.File>>))
                ELSE srcFS)

\* createExportZip: the next (repository, file) pair; the file may have
\* vanished since the scan, and then a warning is printed and the loop goes on.
ExportAddFile ==
    /\ exp.pc = "files"
    /\ exp.k <= Len(RepoPairs(exp.repos))
    /\ \E vanished \in BOOLEAN :
           /\ vanished => exp.gone < MaxVanish
           /\ AddFile(RepoPairs(exp.repos)[exp.k], vanished)
    /\ UNCHANGED <<srcFS0, gitOut, importVars, classifyVars, scanVars>>

\* createExportZip returns and the archive is closed.
ExportClose ==
    /\ exp.pc = "files"
    /\ exp.k > Len(RepoPairs(exp.repos))
    /\ archive' = [archive EXCEPT !.exists = TRUE]
    /\ exp' = [exp EXCEPT !.pc = "done"]
    /\ UNCHANGED <<srcVars, importVars, classifyVars, scanVars>>

\* runImport from the open of the archive to the end of the preview: read is
\* what readManifest returned.
Started(flags, fs, read) ==
    imp' = IF ~archive.exists
           THEN [flags EXCEPT !.pc = "done", !.err = "failed to open archive"]
           ELSE IF ~read.ok
           THEN [flags EXCEPT !.pc = "done", !.err = "failed to read manifest"]
           ELSE [flags EXCEPT
                   !.pc = AfterPreview(flags.dryRun, flags.yes),
                   !.manifest = read.manifest,
                   !.preview = Preview(flags.baseDir, fs, read.manifest),
                   !.i = 1]

\* runImport up to the prompt: open the archive, read the manifest, print the
\* preview, return on a dry run.
ImportStart ==
    /\ exp.pc = "done"
    /\ imp.pc = "idle"
    /\ \E yes \in BOOLEAN, dryRun \in BOOLEAN, baseDir \in BaseDirs, fs \in DstMachines :
           /\ dstFS' = fs
           /\ dstFS0' = fs
           /\ Started([imp EXCEPT !.yes = yes, !.dryRun = dryRun, !.baseDir = baseDir],
                      fs, readManifest(archive))
    /\ UNCHANGED <<exportVars, srcVars, classifyVars, scanVars>>

Answered(line, confirmed) ==
    imp' = [imp EXCEPT !.asked = TRUE, !.line = line,
                       !.cancelled = ~confirmed,
                       !.pc = IF confirmed THEN "files" ELSE "done"]

\* The answer to "Proceed with import? [y/N]".
ImportConfirm ==
    /\ imp.pc = "confirm"
    /\ \E line \in ResponseLines : Answered(line, Confirmed(line))
    /\ UNCHANGED <<dstFS, dstFS0, exportVars, srcVars, classifyVars, scanVars>>

Imported(r) ==
    /\ dstFS' = r.fs
    /\ imp' = [imp EXCEPT
          !.i = @ + 1,
          !.written = IF r.outcome = "ok" THEN Append(@, r.path) ELSE @,
          !.failed = IF r.outcome = "fail" THEN Append(@, r.path) ELSE @]

\* importFiles: the next entry of the archive.
ImportFile ==
    /\ imp.pc = "files"
    /\ imp.i <= Len(archive.entries)
    /\ Imported(importEntry(imp.baseDir, dstFS, imp.manifest, archive.entries[imp.i]))
    /\ UNCHANGED <<dstFS0, exportVars, srcVars, classifyVars, scanVars>>

PatternsImported(r) ==
    /\ dstFS' = r.fs
    /\ imp' = [imp EXCEPT !.pc = "done", !.warning = r.warning]

\* importFiles has returned: importPatterns, then "Import complete!".
ImportPatterns ==
    /\ imp.pc = "files"
    /\ imp.i > Len(archive.entries)
    /\ PatternsImported(importPatterns(dstFS, archive))
    /\ UNCHANGED <<dstFS0, exportVars, srcVars, classifyVars, scanVars>>

Next ==
    \/ ExportCollect
    \/ ExportCreateZip
    \/ ExportAddFile
    \/ ExportClose
    \/ ImportStart
    \/ ImportConfirm
    \/ ImportFile
    \/ ImportPatterns

Spec == Init /\ [][Next]_vars

(***************************************************************************)
(* Import of an archive that import is handed: one export made, or one     *)
(* made by other means                                                     *)
(***************************************************************************)
ZipEntry(name, size, data) == [Name |-> name, Size |-> size, Data |-> data]

MyAppExport(files) == [Name |-> "my-app", Path |-> "/work/my-app", Files |-> files]

Manifested(version, repos) == [Version |-> version, Machine |-> "src-host", Repos |-> repos]

\* What export of my-app writes.
ArchiveGood ==
    [exists |-> TRUE,
     entries |-> <<ManifestEntry,
                   ZipEntry("patterns.yaml", 512, "patterns"),
                   ZipEntry("files/my-app/.env", 1, "env of my-app"),
                   ZipEntry("files/my-app/config/.env.local", 2, "local env of my-app")>>,
     doc |-> Manifested(1, <<MyAppExport(<<".env", "config/.env.local">>)>>)]

\* No manifest.yaml entry: there is nothing to decode.
ArchiveNoManifest ==
    [exists |-> TRUE,
     entries |-> <<ZipEntry("patterns.yaml", 512, "patterns"),
                   ZipEntry("files/my-app/.env", 1, "env of my-app")>>,
     doc |-> NoManifest]

\* A listed file whose relative path climbs out of the repository.
ArchiveTraversal ==
    [exists |-> TRUE,
     entries |-> <<ManifestEntry,
                   ZipEntry("files/my-app/../../outside.txt", 3, "outside"),
                   ZipEntry("files/my-app/.env", 1, "env of my-app")>>,
     doc |-> Manifested(1, <<MyAppExport(<<"../../outside.txt", ".env">>)>>)]

\* A manifest of a version that no export writes.
ArchiveVersion2 ==
    [exists |-> TRUE,
     entries |-> <<ManifestEntry,
                   ZipEntry("files/my-app/.env", 1, "env of my-app")>>,
     doc |-> Manifested(2, <<MyAppExport(<<".env">>)>>)]

\* An entry below files/my-app/ that the manifest does not list.
ArchiveUnlisted ==
    [exists |-> TRUE,
     entries |-> <<ManifestEntry,
                   ZipEntry("files/my-app/.env", 1, "env of my-app"),
                   ZipEntry("files/my-app/extra.key", 4, "not listed")>>,
     doc |-> Manifested(1, <<MyAppExport(<<".env">>)>>)]

Archives ==
    {ArchiveGood, ArchiveNoManifest, ArchiveTraversal, ArchiveVersion2, ArchiveUnlisted}

InitImport ==
    /\ archive \in Archives
    /\ exp = [ExpIdle EXCEPT !.pc = "done"]
    /\ imp = ImpIdle
    /\ dstFS = <<>>
    /\ dstFS0 = <<>>
    /\ SrcIdle
    /\ ClassifyIdle
    /\ ScanIdle

NextImport ==
    \/ ImportStart
    \/ ImportConfirm
    \/ ImportFile
    \/ ImportPatterns

SpecImport == InitImport /\ [][NextImport]_vars

(***************************************************************************)
(* cli: scan --recursive                                                   *)
(***************************************************************************)
\* A tree with a repository, a repository nested in its working tree, a
\* repository inside its .git directory, repositories at and below the
\* directories the walk prunes, a .git that is a file, and a plain directory.
WalkTree ==
    "/" :> DirEnt @@ "/w" :> DirEnt
    @@ "/w/a" :> DirEnt @@ "/w/a/.git" :> DirEnt
    @@ "/w/a/.env" :> FileEnt(1, "env of a")
    @@ "/w/a/build" :> DirEnt @@ "/w/a/build/output.log" :> FileEnt(2, "build log")
    @@ "/w/a/.git/modules" :> DirEnt @@ "/w/a/.git/modules/x" :> DirEnt
    @@ "/w/a/.git/modules/x/.git" :> DirEnt
    @@ "/w/a/sub" :> DirEnt @@ "/w/a/sub/.git" :> DirEnt
    @@ "/w/a/sub/.env" :> FileEnt(4, "env of sub")
    @@ "/w/b" :> DirEnt @@ "/w/b/.git" :> FileEnt(8, "gitdir: elsewhere")
    @@ "/w/c" :> DirEnt @@ "/w/c/notes.txt" :> FileEnt(16, "notes")
    @@ "/w/node_modules" :> DirEnt @@ "/w/node_modules/p" :> DirEnt
    @@ "/w/node_modules/p/.git" :> DirEnt
    @@ "/w/.cache" :> DirEnt @@ "/w/.cache/q" :> DirEnt @@ "/w/.cache/q/.git" :> DirEnt
    @@ "/w/__pycache__" :> DirEnt @@ "/w/__pycache__/.git" :> DirEnt
    @@ "/w/vendor" :> DirEnt @@ "/w/vendor/.git" :> DirEnt
    @@ "/w/vendor/lib" :> DirEnt @@ "/w/vendor/lib/.git" :> DirEnt
    @@ "/w/vendor/lib/.env" :> FileEnt(32, "env of lib")

\* The same tree with its top directory a repository too.
WalkTreeInRepo == WalkTree @@ "/w/.git" :> DirEnt @@ "/w/.env" :> FileEnt(64, "env of w")

WalkTrees == {WalkTree, WalkTreeInRepo}

\* git status in each repository of the tree.
WalkStatus(fs) ==
    [d \in {p \in DOMAIN fs : fs[p].kind = "dir"} |->
        IF d = "/w/a" THEN Listed(<<"!! .env", "!! build/output.log">>)
        ELSE IF d = "/w/a/sub" THEN Listed(<<>>)
        ELSE IF d = "/w/a/.git/modules/x" THEN GitFailed
        ELSE Listed(<<"!! .env">>)]

WalkRoots ==
    {"/", "/w", "/w/a", "/w/a/sub", "/w/a/.git", "/w/a/.git/modules", "/w/b", "/w/c",
     "/w/vendor", "/w/vendor/lib", "/w/node_modules/p", "/w/missing"}

InitWalk ==
    /\ srcFS \in WalkTrees
    /\ srcFS0 = srcFS
    /\ gitOut = GitOf(srcFS, WalkStatus(srcFS))
    /\ scanner \in [ShowAll : BOOLEAN, ExcludeDeps : BOOLEAN]
    /\ scanRoot \in WalkRoots
    /\ scanResult = ScanError
    /\ sPc = "idle"
    /\ walk = [WalkIdle EXCEPT !.pc = "call"]
    /\ ClassifyIdle
    /\ PipelineIdle

\* The callback at a .git directory keeps the result of Scan if Scan did not
\* fail and found files.
KeepResult(result) ==
    IF ~result.err /\ Len(result.IgnoredFiles) > 0 THEN <<result>> ELSE <<>>

RECURSIVE ScanEach(_, _, _, _)
ScanEach(s, fs, git, repoPaths) ==
    IF Len(repoPaths) = 0 THEN <<>>
    ELSE KeepResult(Scan(s, fs, "/", Head(repoPaths), git[Head(repoPaths)]))
             \o ScanEach(s, fs, git, Tail(repoPaths))

RECURSIVE SumSecrets(_)
SumSecrets(results) ==
    IF Len(results) = 0 THEN 0
    ELSE Head(results).SecretCount + SumSecrets(Tail(results))

RECURSIVE SumFiles(_)
SumFiles(results) ==
    IF Len(results) = 0 THEN 0
    ELSE Len(Head(results).IgnoredFiles) + SumFiles(Tail(results))

\* scanRecursive when the walk has ended: scanned are the directories its
\* callback handed to Scan, allResults the results it kept.
Walked(scanned, allResults) ==
    walk' = [walk EXCEPT !.pc = "returned", !.scanned = scanned,
                         !.allResults = allResults,
                         !.totalSecrets = SumSecrets(allResults),
                         !.totalFiles = SumFiles(allResults)]

\* scanRecursive from the walk on.
scanRecursive(s, fs, git, scanned) == Walked(scanned, ScanEach(s, fs, git, scanned))

\* runScan with --recursive: the path must exist; then scanRecursive.
ScanRecursive ==
    /\ walk.pc = "call"
    /\ IF Stat(srcFS, scanRoot).kind = "none"
       THEN walk' = [walk EXCEPT !.pc = "returned", !.err = TRUE]
       ELSE scanRecursive(scanner, srcFS, gitOut, WalkRepos(srcFS, scanRoot))
    /\ UNCHANGED <<scanner, scanRoot, scanResult, sPc, srcVars,
                   classifyVars, exportVars, importVars>>

NextWalk == ScanRecursive

SpecWalk == InitWalk /\ [][NextWalk]_vars

(***************************************************************************)
(* Properties of the classifier and of Scan                                *)
(***************************************************************************)
RECURSIVE SumSizes(_)
SumSizes(files) ==
    IF Len(files) = 0 THEN 0 ELSE Head(files).Size + SumSizes(Tail(files))

Returned == sPc = "returned" /\ ~scanResult.err

IgnoredPathsOfCall == getGitIgnoredFiles(gitOut[Abs(ScanCwd, scanRoot)].lines)

\* C6: in every ScanResult that Scan returns, TotalSize is the sum of Size over
\* IgnoredFiles and SecretCount is the number of IgnoredFiles with IsSecret.
C6_AggregateConsistency ==
    Returned =>
        /\ scanResult.TotalSize = SumSizes(scanResult.IgnoredFiles)
        /\ scanResult.SecretCount =
               Cardinality({i \in 1..Len(scanResult.IgnoredFiles) :
                               scanResult.IgnoredFiles[i].IsSecret})

\* A result that holds a secret file and a file that is not secret.
C6_Witness ==
    /\ Returned
    /\ \E i, j \in 1..Len(scanResult.IgnoredFiles) :
           /\ scanResult.IgnoredFiles[i].IsSecret
           /\ ~scanResult.IgnoredFiles[j].IsSecret
    /\ scanResult.TotalSize > 0

\* C7: categorizeFile returns the first category, in the order env, key, config,
\* build, cache, ide, other, whose rule the path matches; .env.production is env,
\* and config/app.secret.yaml is key (and secret), as is a name that matches the
\* key rule and the config rule.
C7_CategoryPrecedence ==
    cPc = "classified" =>
        LET name == ToLower(Base(cPath))
            ext == ToLower(Ext(cPath))
            rules == <<IsEnvName(name), IsKeyName(name, ext), IsConfigName(name, ext),
                       IsBuildPath(cPath), IsCachePath(cPath, name), IsIdePath(cPath),
                       TRUE>>
            order == <<"env", "key", "config", "build", "cache", "ide", "other">>
            first == CHOOSE k \in 1..7 : rules[k] /\ \A j \in 1..(k - 1) : ~rules[j]
        IN  /\ cCategory = order[first]
            /\ cPath = ".env.production" => cCategory = "env"
            /\ cPath = "config/app.secret.yaml" => cCategory = "key" /\ cSecret
            /\ IsKeyName(name, ext) /\ ~IsEnvName(name) => cCategory = "key"

\* A classified path that matches the key rule and the config rule.
C7_Witness ==
    /\ cPc = "classified"
    /\ IsKeyName(ToLower(Base(cPath)), ToLower(Ext(cPath)))
    /\ IsConfigName(ToLower(Base(cPath)), ToLower(Ext(cPath)))
    /\ cCategory = "key"

\* C8: every IgnoredFile of a ScanResult whose Category is env or key has
\* IsSecret true.
C8_SecretImpliesCategory ==
    Returned =>
        \A i \in 1..Len(scanResult.IgnoredFiles) :
            scanResult.IgnoredFiles[i].Category \in {"env", "key"}
                => scanResult.IgnoredFiles[i].IsSecret

\* A result that holds an env file and a key file.
C8_Witness ==
    /\ Returned
    /\ \E i, j \in 1..Len(scanResult.IgnoredFiles) :
           /\ scanResult.IgnoredFiles[i].Category = "env"
           /\ scanResult.IgnoredFiles[j].Category = "key"

\* The names of the built-in dependency directories.
DepsNames == {TrimSuffix(d, "/") : d \in Range(depsDirs)}

\* The path has an element, above its last one, that is a dependency directory.
UnderDepsDir(path) ==
    LET parts == SplitSlash(path)
    IN  \E i \in 1..(Len(parts) - 1) : parts[i] \in DepsNames

InResult(path) ==
    \E i \in 1..Len(scanResult.IgnoredFiles) : scanResult.IgnoredFiles[i].Path = path

\* C9: with ExcludeDeps no file of the result lies under a dependency directory,
\* at any depth; without it, an ignored file under one that exists (such as
\* node_modules/pkg/.env) is in the result, with category env and IsSecret.
C9_DepsExclusion ==
    Returned =>
        /\ scanner.ExcludeDeps =>
               \A i \in 1..Len(scanResult.IgnoredFiles) :
                   ~UnderDepsDir(scanResult.IgnoredFiles[i].Path)
        /\ ~scanner.ExcludeDeps =>
               \A p \in {"node_modules/pkg/.env", "packages/web/node_modules/pkg/.env"} :
                   (/\ p \in Range(IgnoredPathsOfCall)
                    /\ Stat(srcFS, Join(<<scanResult.RootPath, p>>)).kind = "file")
                       => \E i \in 1..Len(scanResult.IgnoredFiles) :
                              /\ scanResult.IgnoredFiles[i].Path = p
                              /\ scanResult.IgnoredFiles[i].Category = "env"
                              /\ scanResult.IgnoredFiles[i].IsSecret

\* Both settings met node_modules/pkg/.env: here it was listed, exists, and
\* ExcludeDeps kept it out of a result that holds another file.
C9_Witness ==
    /\ Returned
    /\ scanner.ExcludeDeps
    /\ "packages/web/node_modules/pkg/.env" \in Range(IgnoredPathsOfCall)
    /\ Stat(srcFS, "/work/my-app/packages/web/node_modules/pkg/.env").kind = "file"
    /\ ~InResult("packages/web/node_modules/pkg/.env")
    /\ InResult(".env")

\* C18: a path that is not env, key or config is classified build exactly when
\* one of its path segments is one of the build directory names.
C18_BuildWholeSegments ==
    (cPc = "classified" /\ cCategory \notin {"env", "key", "config"})
    => (cCategory = "build"
           <=> \E segment \in Range(SplitSlash(cPath)) : segment \in Range(buildDirs))

\* C16: Scan of a directory that is in no repository returns no error and a
\* result with its absolute path, no file, size 0 and no secret, although git
\* status fails in that directory: the ignored files are not asked for.
C16_NonRepoNoOp ==
    (sPc = "returned" /\ ~isGitRepo(srcFS, Abs(ScanCwd, scanRoot)))
    => /\ ~scanResult.err
       /\ scanResult.RootPath = Abs(ScanCwd, scanRoot)
       /\ scanResult.IgnoredFiles = <<>>
       /\ scanResult.TotalSize = 0
       /\ scanResult.SecretCount = 0

C16_Witness ==
    /\ sPc = "returned"
    /\ scanRoot = "plain"
    /\ Stat(srcFS, "/work/plain").kind = "dir"
    /\ ~gitOut["/work/plain"].ok
    /\ scanner.ShowAll
    /\ scanResult = EmptyResult("/work/plain")

(***************************************************************************)
(* Properties of the recursive walk                                        *)
(***************************************************************************)
PrunedNames == {"node_modules", "vendor", ".cache", "__pycache__"}

RootPrefix(root) == IF root = "/" THEN "/" ELSE root \o "/"

InTree(path, root) == path = root \/ HasPrefix(path, RootPrefix(root))

AllButLast(seq) == SubSeq(seq, 1, Len(seq) - 1)

\* The names of the directories on the way from the root of the walk, its own
\* name included, down to the directory that holds path.
NamesAbove(path, root) ==
    IF path = root THEN <<>>
    ELSE <<Base(root)>> \o AllButLast(SplitSlash(TrimPrefix(path, RootPrefix(root))))

\* The directories whose .git child directory is in the walked tree with no
\* pruned directory and no .git directory above it.
ExpectedRepos(fs, root) ==
    {d \in {p \in DOMAIN fs : fs[p].kind = "dir"} :
        /\ Stat(fs, Join(<<d, ".git">>)).kind = "dir"
        /\ InTree(Join(<<d, ".git">>), root)
        /\ \A name \in Range(NamesAbove(Join(<<d, ".git">>), root)) :
               name \notin PrunedNames \cup {".git"}}

\* C17: the recursive walk hands to Scan, once each, exactly the directories
\* that have a .git child directory in the walked tree and are not at or below
\* a directory named node_modules, vendor, .cache or __pycache__ nor inside a
\* .git directory, repositories nested in a working tree included; every
\* result it keeps is the result of one of them. The tree is the root of the
\* walk and what is below it; names are counted from the root's own name down.
C17_WalkCoverage ==
    (walk.pc = "returned" /\ ~walk.err)
    => /\ \A i, j \in 1..Len(walk.scanned) :
              walk.scanned[i] = walk.scanned[j] => i = j
       /\ Range(walk.scanned) = ExpectedRepos(srcFS, scanRoot)
       /\ \A r \in Range(walk.allResults) : r.RootPath \in Range(walk.scanned)

C17_Witness ==
    /\ walk.pc = "returned" /\ ~walk.err
    /\ scanRoot = "/w"
    /\ srcFS = WalkTreeInRepo
    /\ walk.scanned = <<"/w", "/w/a", "/w/a/sub">>
    /\ Len(walk.allResults) = 2

(***************************************************************************)
(* Properties of export and import                                         *)
(***************************************************************************)
EntryNames == {archive.entries[i].Name : i \in 1..Len(archive.entries)}

ListedPairs == RepoPairs(archive.doc.Repos)

\* The name of the archive entry of a (repository, file) pair.
EntryNameOf(pair) == Join(<<"files", pair.Name, pair.File>>)

\* The place a path names on the importing machine.
Place(path) == Abs(DstCwd, path)

\* An import that ran to the end: not a dry run, not cancelled, no fatal error.
ImportRan ==
    /\ imp.pc = "done" /\ imp.err = ""
    /\ ~imp.dryRun /\ ~imp.cancelled

DistinctNames ==
    \A i, j \in 1..Len(archive.doc.Repos) :
        archive.doc.Repos[i].Name = archive.doc.Repos[j].Name => i = j

\* C1: whatever the name of a repository, after an export and a confirmed,
\* non-dry-run import with a base directory into an empty destination, every
\* file that export added to the archive is at baseDir/<name>/<file> with the
\* content of the source, with one success for each such file and no failure.
C1_RoundTrip ==
    (ImportRan /\ imp.baseDir # "" /\ dstFS0 = DstBase /\ DistinctNames)
    => /\ \A i \in 1..Len(exp.added) :
              /\ Stat(dstFS, Place(imp.baseDir \o "/" \o exp.added[i].Name
                                       \o "/" \o exp.added[i].File)).kind = "file"
              /\ Stat(dstFS, Place(imp.baseDir \o "/" \o exp.added[i].Name
                                       \o "/" \o exp.added[i].File)).data
                   = Stat(srcFS0, Join(<<exp.added[i].Path, exp.added[i].File>>)).data
       /\ Len(imp.written) = Len(exp.added)
       /\ Len(imp.failed) = 0

\* C2: an import with dryRun set ends after the preview, which has a line for
\* every file of the manifest, and leaves the destination as it was: no
\* directory made, no file written, patterns.yaml not restored, no question
\* asked, whatever yes and baseDir are.
C2_DryRunNoOp ==
    (imp.dryRun /\ imp.pc # "idle")
    => /\ imp.pc = "done"
       /\ dstFS = dstFS0
       /\ imp.written = <<>> /\ imp.failed = <<>>
       /\ ~imp.asked /\ ~imp.warning
       /\ imp.err = "" => Len(imp.preview) = Len(ListedPairs)

C2_Witness ==
    /\ imp.dryRun /\ imp.yes /\ imp.pc = "done" /\ imp.err = ""
    /\ imp.baseDir = ""
    /\ dstFS0 = DstHasRepo
    /\ "patterns.yaml" \in EntryNames
    /\ \E i \in 1..Len(imp.preview) :
           imp.preview[i].Dest = "/work/my-app/.env" /\ imp.preview[i].Overwrite
    /\ \E i \in 1..Len(imp.preview) : ~imp.preview[i].Overwrite

\* The files of the manifest that have no entry in the archive.
MissingPairs == {i \in 1..Len(ListedPairs) : EntryNameOf(ListedPairs[i]) \notin EntryNames}

\* C3: an import into an empty destination prints one failure for each file
\* of the manifest that has no entry in the archive, and no other failure.
C3_MissingEntryFailure ==
    (ImportRan /\ dstFS0 = DstBase)
    => /\ Len(imp.failed) = Cardinality(MissingPairs)
       /\ \A i \in MissingPairs :
              \E j \in 1..Len(imp.failed) : imp.failed[j] = ListedPairs[i].File

\* The destination of a file by the order of priority: the base directory if
\* one is given, else the original path if it is a directory, else the
\* working directory.
PriorityDest(baseDir, fs, line) ==
    IF baseDir # "" THEN baseDir \o "/" \o line.Name \o "/" \o line.File
    ELSE IF line.Path \in DOMAIN fs /\ fs[line.Path].kind = "dir"
         THEN line.Path \o "/" \o line.File
    ELSE "./" \o line.Name \o "/" \o line.File

\* C4: the destination resolved for every file of the manifest is
\* baseDir/name/file if a base directory is given, even when the original path
\* exists; else path/file if the original path is a directory; else
\* ./name/file.
C4_DestinationPriority ==
    (imp.pc # "idle" /\ imp.err = "")
    => \A i \in 1..Len(imp.preview) :
           Place(imp.preview[i].Dest)
               = Place(PriorityDest(imp.baseDir, dstFS0, imp.preview[i]))

C4_Witness ==
    /\ imp.pc # "idle" /\ imp.err = ""
    /\ imp.baseDir = ""
    /\ dstFS0 = DstHasRepo
    /\ \E i \in 1..Len(imp.preview) :
           /\ imp.preview[i].Path = "/work/my-app"
           /\ imp.preview[i].Dest = "/work/my-app/.env"
    /\ \E i \in 1..Len(imp.preview) :
           /\ imp.preview[i].Path = "/work/api"
           /\ imp.preview[i].Dest = "api/id_rsa"

\* The repositories export scans: the path itself, or those the walk finds.
ScannedPaths ==
    IF exp.recursive THEN Range(WalkRepos(srcFS0, exp.path)) ELSE {exp.path}

ScanOf(path) == Scan(ExportScanner(exp.includeDeps), srcFS0, "/", path, gitOut[path])

Flagged(path) == isSecretFile(path, categorizeFile(path))

\* C5: once export has collected, and until the archive is imported, every
\* file of every RepoExport is a path git lists as ignored in that repository
\* and the classifier flags as secret;
\* every secret file of the scan result of a scanned repository is in its
\* RepoExport; the manifest holds those repositories; and every entry of the
\* archive below files/ is the entry of such a file.
C5_ExportOnlySecrets ==
    (exp.pc \in {"zip", "files", "done"} /\ ~exp.err /\ imp.pc = "idle")
    => /\ \A r \in Range(exp.repos) : \A f \in Range(r.Files) :
              /\ Flagged(f)
              /\ f \in Range(getGitIgnoredFiles(gitOut[r.Path].lines))
       /\ \A p \in ScannedPaths :
              ~ScanOf(p).err =>
                  \A x \in Range(ScanOf(p).IgnoredFiles) :
                      x.IsSecret =>
                          \E r \in Range(exp.repos) :
                              r.Path = p /\ x.Path \in Range(r.Files)
       /\ archive.doc.Repos \in {<<>>, exp.repos}
       /\ \A name \in EntryNames :
              \/ name \in {"manifest.yaml", "patterns.yaml"}
              \/ \E pair \in Range(RepoPairs(exp.repos)) :
                     name = EntryNameOf(pair) /\ Flagged(pair.File)

C5_Witness ==
    /\ exp.pc = "done" /\ archive.exists /\ imp.pc = "idle"
    /\ \E r \in Range(exp.repos) :
           /\ r.Name = "my-app"
           /\ r.Files = <<".env", "config/.env.local">>
           /\ "build/output.log" \in Range(getGitIgnoredFiles(gitOut[r.Path].lines))
    /\ "files/my-app/.env" \in EntryNames
    /\ "files/my-app/build/output.log" \notin EntryNames

\* The answers that confirm: y or yes, in any case, with space around it.
IsYes(line) == TrimSpace(ToLower(line)) \in {"y", "yes"}

\* C10: without dryRun and without yes, import asks before it changes the
\* destination: while it waits, and after any answer that is not y or yes,
\* the destination is as it was; such an answer ends the import with nothing
\* written, patterns.yaml not restored, and no error.
C10_CancelledImport ==
    (imp.pc # "idle" /\ imp.err = "" /\ ~imp.dryRun /\ ~imp.yes)
    => /\ imp.pc = "confirm" => dstFS = dstFS0 /\ ~imp.asked
       /\ imp.pc # "confirm" => imp.asked
       /\ dstFS # dstFS0 => imp.asked /\ IsYes(imp.line)
       /\ (imp.asked /\ ~IsYes(imp.line))
              => /\ imp.pc = "done" /\ imp.cancelled
                 /\ dstFS = dstFS0
                 /\ imp.written = <<>> /\ imp.failed = <<>>
                 /\ ~imp.warning

C10_Witness ==
    /\ ~imp.dryRun /\ ~imp.yes /\ imp.asked
    /\ imp.line = "maybe\n"
    /\ imp.pc = "done" /\ imp.cancelled /\ imp.err = ""
    /\ Len(imp.preview) > 0
    /\ "patterns.yaml" \in EntryNames
    /\ dstFS = dstFS0

\* C14: once export has collected, no two RepoExport entries have the same
\* name, and no two (repository, file) pairs of different repositories have
\* the same archive entry name.
C14_UniqueNames ==
    (exp.pc \in {"zip", "files", "done"} /\ ~exp.err)
    => /\ \A i, j \in 1..Len(exp.repos) :
              exp.repos[i].Name = exp.repos[j].Name => i = j
       /\ \A a, b \in Range(RepoPairs(exp.repos)) :
              EntryNameOf(a) = EntryNameOf(b) => a.Path = b.Path

\* The (repository, file) pairs createExportZip has attempted so far.
Attempted == SubSeq(RepoPairs(exp.repos), 1, exp.k - 1)

\* C15: while the archive is built and after, every pair attempted so far is
\* either added or warned about, a warning leaves the build in its loop, the
\* build ends only after the last pair and then succeeds, and the manifest
\* written at the start lists the files that failed.
C15_BuildResilience ==
    (exp.pc \in {"files", "done"} /\ exp.k >= 1)
    => /\ Range(Attempted) = Range(exp.added) \cup Range(exp.warnings)
       /\ Len(exp.added) + Len(exp.warnings) = exp.k - 1
       /\ exp.pc = "done" => exp.k = Len(RepoPairs(exp.repos)) + 1
       /\ exp.pc = "done" => archive.exists /\ ~exp.err
       /\ archive.doc.Repos = exp.repos
       /\ Range(exp.warnings) \subseteq Range(ListedPairs)

C15_Witness ==
    /\ exp.pc = "done" /\ archive.exists /\ ~exp.err /\ imp.pc = "idle"
    /\ Len(exp.warnings) = 1
    /\ exp.warnings[1].Name = "my-app" /\ exp.warnings[1].File = ".env"
    /\ exp.warnings[1] \in Range(ListedPairs)
    /\ "files/my-app/.env" \notin EntryNames
    /\ "files/my-app/config/.env.local" \in EntryNames
    /\ "files/api/id_rsa" \in EntryNames

(***************************************************************************)
(* Properties of import of any archive                                     *)
(***************************************************************************)
\* C11: import of an archive that has no manifest.yaml entry ends with the
\* error of readManifest before the preview, the question and any change of
\* the destination, even though the archive holds entries below files/ and
\* patterns.yaml.
C11_MissingManifestFatal ==
    (imp.pc # "idle" /\ archive.exists /\ "manifest.yaml" \notin EntryNames)
    => /\ imp.pc = "done"
       /\ imp.err = "failed to read manifest"
       /\ imp.preview = <<>>
       /\ ~imp.asked /\ ~imp.cancelled
       /\ imp.written = <<>> /\ imp.failed = <<>> /\ ~imp.warning
       /\ dstFS = dstFS0

C11_Witness ==
    /\ imp.pc = "done" /\ imp.err = "failed to read manifest"
    /\ ~imp.dryRun /\ imp.yes
    /\ "manifest.yaml" \notin EntryNames
    /\ "files/my-app/.env" \in EntryNames
    /\ "patterns.yaml" \in EntryNames
    /\ dstFS = DstBase

\* The directory that holds the files of a repository on the importing
\* machine, by the order of priority of the destination.
DestRoot(repo) ==
    IF imp.baseDir # "" THEN Place(imp.baseDir \o "/" \o repo.Name)
    ELSE IF repo.Path \in DOMAIN dstFS0 /\ dstFS0[repo.Path].kind = "dir"
         THEN Place(repo.Path)
    ELSE Place("./" \o repo.Name)

Below(path, root) == path = root \/ root = "/" \/ HasPrefix(path, root \o "/")

\* The files import made or changed.
FilesTouched ==
    {p \in DOMAIN dstFS :
        dstFS[p].kind = "file" /\ (p \notin DOMAIN dstFS0 \/ dstFS0[p] # dstFS[p])}

\* The entries whose relative path leaves the destination root of their repository.
EscapingEntries ==
    {i \in 1..Len(archive.entries) :
        /\ HasPrefix(archive.entries[i].Name, "files/")
        /\ Len(SplitN2(TrimPrefix(archive.entries[i].Name, "files/"), "/")) = 2
        /\ \E r \in Range(imp.manifest.Repos) :
               /\ r.Name = SplitN2(TrimPrefix(archive.entries[i].Name, "files/"), "/")[1]
               /\ ~Below(Place(DestRoot(r) \o "/"
                                 \o SplitN2(TrimPrefix(archive.entries[i].Name, "files/"), "/")[2]),
                         DestRoot(r))}

\* C12: an import that has run made or changed no file outside the
\* destination roots of the repositories of the manifest (patterns.yaml
\* apart), and printed a failure for every entry whose relative path leaves
\* the root of its repository.
C12_TraversalRejected ==
    ImportRan
    => /\ \A p \in FilesTouched :
              \/ p = DstPatternsPath
              \/ \E r \in Range(imp.manifest.Repos) : Below(p, DestRoot(r))
       /\ \A i \in EscapingEntries :
              \E j \in 1..Len(imp.failed) :
                  imp.failed[j] = SplitN2(TrimPrefix(archive.entries[i].Name, "files/"), "/")[2]

\* C13: import of an archive whose manifest has a version other than 1 ends
\* with an error and leaves the destination as it was.
C13_VersionChecked ==
    (imp.pc # "idle" /\ archive.exists /\ "manifest.yaml" \in EntryNames
       /\ archive.doc.Version # 1)
    => /\ imp.pc = "done"
       /\ imp.err # ""
       /\ imp.written = <<>>
       /\ dstFS = dstFS0

\* C19: in an import that has run, every success names the destination the
\* preview showed for a file of the manifest, and every file made or changed
\* (patterns.yaml apart) is at such a destination.
C19_WritesOnlyPreviewed ==
    ImportRan
    => /\ \A j \in 1..Len(imp.written) :
              \E i \in 1..Len(imp.preview) : imp.written[j] = imp.preview[i].Dest
       /\ \A p \in FilesTouched :
              \/ p = DstPatternsPath
              \/ \E i \in 1..Len(imp.preview) : p = Place(imp.preview[i].Dest)

=============================================================================
